---- MODULE Spec2Model ----
(***************************************************************************)
(* Model of job_applicator_v6 (src/main.py): the single-instance pipeline  *)
(* lock -> gather -> filter -> rank -> select -> generate -> persist ->    *)
(* save the seen-URL store -> unlock, run by up to two concurrent          *)
(* operating-system processes that share one cache directory.  Every HTTP  *)
(* request goes through the @retry decorator of _get_html or _openai_post  *)
(* and is modelled attempt by attempt.                                     *)
(*   Spec    - several invocations, two one-row pages, requests that are   *)
(*             never retried;                                              *)
(*   SpecRun - one invocation, pages of up to MaxPostings rows;            *)
(*   SpecNet - one invocation, requests that fail in every way.            *)
(***************************************************************************)
EXTENDS Integers, Sequences, FiniteSets, TLC

\* ------------------------------------------------------------------ bounds
\* number of connector tasks built by _gather (len(CR_SITES) + 2 in the code)
NumConnectors == 2
\* most rows the scraped pages hold together when one invocation is studied
MaxPostings == 4
\* number of invocations of the program when several share the cache directory
MaxRuns == 2

\* ------------------------------------------------------- program constants
MAX_APPLY == 3
\* stop=stop_after_attempt(3) of _get_html
GET_ATTEMPTS == 3
\* stop=stop_after_attempt(4) of _openai_post
POST_ATTEMPTS == 4

\* -------------------------------------------------------------- input sets
\* the invocations of the program, each an operating-system process of its own
Procs == 1..MaxRuns
Connectors == 1..NumConnectors
Urls == 1..(NumConnectors + 1)
\* similarity values the scoring service may return: enough of them to give
\* every job of a merged list a value of its own
Scores == 1..MaxPostings

\* two urls in a row share a title
TitleOf(u) == (u + 1) \div 2

\* dataclass Job (date and summary do not influence control flow)
Job(u, c) == [url |-> u, title |-> TitleOf(u), board |-> c]

\* The page connector c scrapes lists url c, url c+1, url c, ... : every url
\* but the first and the last is cross-listed by two connectors.
Rows(c, k) == [i \in 1..k |-> Job(IF i % 2 = 1 THEN c ELSE c + 1, c)]

RECURSIVE Total(_, _)
Total(count, c) == IF c > NumConnectors THEN 0 ELSE count[c] + Total(count, c + 1)

\* row counts of the pages: when several invocations run, the first two pages
\* hold one row each and the others none; when one invocation is studied, the
\* pages hold at most MaxPostings rows in all
ShortUpstreams == {[c \in Connectors |-> IF c <= 2 THEN 1 ELSE 0]}
RichUpstreams == {u \in [Connectors -> 0..MaxPostings] : Total(u, 1) <= MaxPostings}

\* what one connector task hands to asyncio.gather(return_exceptions=True):
\* a list of Job, or the exception it raised
Failed == [ok |-> FALSE, batch |-> <<>>]
Returned(b) == [ok |-> TRUE, batch |-> b]

\* raw outcomes of one _gpt call
RawResponses == {"transport_error", "unparseable", "error_record",
                 "success", "empty_object", "non_object"}

\* how one attempt of an HTTP request ends: the response is returned, or the
\* client raises httpx.ConnectError / httpx.TimeoutException (connect_error),
\* raise_for_status raises httpx.HTTPStatusError for a 5xx or 429 status
\* (http_5xx, http_429) or for another 4xx status (http_4xx), or the client
\* rejects the url with httpx.InvalidURL (invalid_url)
Outcomes == {"ok", "connect_error", "http_5xx", "http_429", "http_4xx",
             "invalid_url"}

\* the outcomes of a network on which no attempt fails in a way that either
\* decorator retries
SteadyOutcomes == {"ok", "invalid_url"}

\* the exception classes named by the decorators
HTTPStatusError == {"http_5xx", "http_429", "http_4xx"}
HTTPError == HTTPStatusError \cup {"connect_error"}

\* ------------------------------------------------------------------ helpers
Range(s) == {s[i] : i \in 1..Len(s)}
Min(a, b) == IF a <= b THEN a ELSE b
SetMin(S) == CHOOSE x \in S : \A y \in S : x <= y

RECURSIVE SortedSeq(_)
\* sorted(seen): ascending list of the elements of a set
SortedSeq(S) ==
    IF S = {} THEN <<>>
    ELSE LET m == SetMin(S) IN <<m>> \o SortedSeq(S \ {m})

\* list slice s[:k]
Take(s, k) == SubSeq(s, 1, Min(k, Len(s)))

\* ------------------------------------------------------------------- files
\* A text file holding a JSON array: the opening bracket, the items written
\* so far, the closing bracket.  A file cut short lacks the tail.
NoFile == [exists |-> FALSE, open |-> FALSE, items |-> <<>>, close |-> FALSE]
EmptyFile == [exists |-> TRUE, open |-> FALSE, items |-> <<>>, close |-> FALSE]

\* json.dumps(sorted(seen))
json_dumps(seen) ==
    [exists |-> TRUE, open |-> TRUE, items |-> SortedSeq(seen), close |-> TRUE]

\* whether json.loads accepts the text
WellFormed(f) == f.exists /\ f.open /\ f.close

\* set(json.loads(text))
json_loads(f) == Range(f.items)

\* the text after one more piece of `full` has reached the file
NextPiece(f, full) ==
    IF ~f.open THEN [f EXCEPT !.open = TRUE]
    ELSE IF Len(f.items) < Len(full.items)
         THEN [f EXCEPT !.items = Append(@, full.items[Len(f.items) + 1])]
         ELSE [f EXCEPT !.close = TRUE]

VARIABLES
    upstream,    \* the number of rows of the page each connector scrapes
    quota,       \* the number of invocations that will be started
    network,     \* the ways an attempt of an HTTP request may end
    lockFile,    \* LOCK_FILE exists
    seenFile,    \* SEEN_FILE
    tmpFile,     \* SEEN_FILE.with_suffix(".tmp")
    artifacts,   \* the cover-letter files of CACHE_DIR
    followups,   \* followups.txt: the url of each line, newest first
    runs,        \* invocations started so far
    pc,          \* where each process is
    outcome,     \* how the process's invocation ended
    lock_fd,     \* the process created the marker and has not removed it
    raised,      \* where an exception that main does not catch was raised
    SEEN_URLS,   \* module-level set of each process
    batches,     \* results of asyncio.gather in _gather
    jobs,        \* main: jobs
    ranked,      \* main: ranked
    chosen,      \* main: chosen
    results,     \* main: results
    call,        \* the decorated call in progress, or the last one made
    replies,     \* whether each call of the current stage returned or raised
    embeds,      \* _rank_jobs: the similarity values of the scoring response
    storeAtLoad, \* history: the urls in SEEN_FILE when the process loaded it
    preRun,      \* history: SEEN_FILE when the process took the lock
    overlapped,  \* history: another invocation was active during this one
    written,     \* history: the letter files the invocation wrote
    invoked,     \* history: the collaborators the invocation has called
    accepted     \* history: the urls of the postings with an accepted response

vars == <<upstream, quota, network, lockFile, seenFile, tmpFile, artifacts,
          followups, runs, pc, outcome,
          lock_fd, raised, SEEN_URLS, batches, jobs, ranked, chosen, results,
          call, replies, embeds,
          storeAtLoad, preRun, overlapped, written, invoked, accepted>>

files == <<seenFile, tmpFile, artifacts, followups>>
world == <<upstream, quota, network>>
locals == <<batches, jobs, ranked, chosen, results, call, replies, embeds>>
history == <<storeAtLoad, preRun, overlapped, written, invoked, accepted>>

Active(p) == pc[p] \notin {"idle", "Done"}

\* the process is between the creation of the marker and the end of main
InRun(p) == pc[p] \in {"Gathering", "Ranking", "Generating", "Persisting",
                       "SaveOpen", "SaveWrite", "SaveReplace", "Unlocking",
                       "Unwinding"}

\* --------------------------------------------------------- pure functions
\* retry=retry_if_exception_type(...): the failed attempt is followed by
\* another one unless the ceiling is reached
retry_if_exception_type(fn, o) ==
    o \in (IF fn = "_get_html" THEN HTTPError ELSE HTTPStatusError)

\* variant: no ceiling on the number of attempts
stop_never(fn, n) == FALSE

\* stop=stop_after_attempt(...): attempt n was the last one allowed
stop_after_attempt(fn, n) ==
    n >= (IF fn = "_get_html" THEN GET_ATTEMPTS ELSE POST_ATTEMPTS)

\* no call made yet in the current stage
NoCall == [fn |-> "none", tries |-> 0, outcome |-> "none", done |-> TRUE]

\* variant: the file is never read
LoadNothing(f) == {}

\* _load_seen
_load_seen(f) == IF f.exists THEN json_loads(f) ELSE {}

RECURSIVE MergeUntilFailure(_, _)
\* variant: the first task that raised ends the merge
MergeUntilFailure(res, c) ==
    IF c > NumConnectors \/ ~res[c].ok THEN <<>>
    ELSE res[c].batch \o MergeUntilFailure(res, c + 1)

RECURSIVE Merge(_, _)
\* the batches of the tasks that did not raise, in task order
Merge(res, c) ==
    IF c > NumConnectors THEN <<>>
    ELSE (IF res[c].ok THEN res[c].batch ELSE <<>>) \o Merge(res, c + 1)

\* variant: no test against SEEN_URLS
IsNewAlways(j, seen) == TRUE

\* the test of _gather that lets a job through
IsNew(j, seen) == j.url \notin seen

\* _gather: the jobs of the successful batches whose url is not in SEEN_URLS
_gather(res, seen) == SelectSeq(Merge(res, 1), LAMBDA j : IsNew(j, seen))

\* tuple comparison (s1, j1) < (s2, j2) raises TypeError when the scores tie
\* and the jobs differ: Job defines __eq__ but no ordering
SortRaises(scores, js) ==
    \E i, k \in 1..Len(js) : i < k /\ scores[i] = scores[k] /\ js[i] # js[k]

RECURSIVE InsertDesc(_, _)
\* insert pair x behind every pair of the sorted list that is not smaller
InsertDesc(sorted, x) ==
    IF sorted = <<>> THEN <<x>>
    ELSE IF Head(sorted).score >= x.score
         THEN <<Head(sorted)>> \o InsertDesc(Tail(sorted), x)
         ELSE <<x>> \o sorted

RECURSIVE SortDesc(_, _)
SortDesc(pairs, i) ==
    IF i = 0 THEN <<>>
    ELSE InsertDesc(SortDesc(pairs, i - 1), pairs[i])

\* _rank_jobs after a successful _embed: sorted(scores, reverse=True)
_rank_jobs(scores, js) ==
    LET pairs == [i \in 1..Len(js) |-> [score |-> scores[i], job |-> js[i]]]
        sorted == SortDesc(pairs, Len(js))
    IN [i \in 1..Len(js) |-> sorted[i].job]

\* variant: no slice
SelectAll(rk) == rk

\* main: ranked[:MAX_APPLY]
Select(rk) == Take(rk, MAX_APPLY)

\* variant: no early return
AfterGatherAlwaysRank(js) == "Ranking"

\* main: if not jobs: print("No new jobs."); return
AfterGather(js) == IF js = <<>> THEN "Unwinding" ELSE "Ranking"

\* variant: the store is not saved before the marker is removed
AfterLoopUnlock(crashed) == IF crashed THEN "Unwinding" ELSE "Unlocking"

\* main: what follows the loop over zip(chosen, results)
AfterLoop(crashed) == IF crashed THEN "Unwinding" ELSE "SaveOpen"

\* _mega_generate: what main receives for one raw response
_mega_generate(raw) ==
    IF raw \in {"transport_error", "unparseable"} THEN "error_record" ELSE raw

\* _save_letter: the file name (the run date is the same for all runs)
FileName(job) == [title |-> job.title, board |-> job.board]

\* _save_letter: path.write_text(letter) replaces a file of the same name
WriteLetter(arts, job, letter) ==
    {a \in arts : a.name # FileName(job)}
        \cup {[name |-> FileName(job), letter |-> letter]}

RECURSIVE PersistLoop(_, _, _, _)
\* the for loop of main over zip(chosen, results), from index i on
PersistLoop(ch, res, i, st) ==
    IF i > Len(ch) THEN st
    ELSE IF res[i] = "error_record" THEN PersistLoop(ch, res, i + 1, st)
    ELSE IF res[i] = "non_object" THEN [st EXCEPT !.raised = TRUE]
    ELSE PersistLoop(ch, res, i + 1,
            [arts |-> WriteLetter(st.arts, ch[i],
                                  IF res[i] = "success" THEN ch[i].url ELSE 0),
             foll |-> <<ch[i].url>> \o st.foll,
             seen |-> st.seen \cup {ch[i].url},
             names |-> st.names \cup {FileName(ch[i])},
             raised |-> FALSE])

\* --------------------------------------------------------------- the state
InitCommon ==
    /\ lockFile = FALSE
    /\ seenFile = NoFile
    /\ tmpFile = NoFile
    /\ artifacts = {}
    /\ followups = <<>>
    /\ runs = 0
    /\ pc = [p \in Procs |-> "idle"]
    /\ outcome = [p \in Procs |-> "none"]
    /\ lock_fd = [p \in Procs |-> FALSE]
    /\ raised = [p \in Procs |-> "none"]
    /\ SEEN_URLS = [p \in Procs |-> {}]
    /\ batches = [p \in Procs |-> <<>>]
    /\ jobs = [p \in Procs |-> <<>>]
    /\ ranked = [p \in Procs |-> <<>>]
    /\ chosen = [p \in Procs |-> <<>>]
    /\ results = [p \in Procs |-> <<>>]
    /\ call = [p \in Procs |-> NoCall]
    /\ replies = [p \in Procs |-> <<>>]
    /\ embeds = [p \in Procs |-> <<>>]
    /\ invoked = [p \in Procs |-> {}]
    /\ accepted = [p \in Procs |-> {}]
    /\ storeAtLoad = [p \in Procs |-> {}]
    /\ preRun = [p \in Procs |-> NoFile]
    /\ overlapped = [p \in Procs |-> FALSE]
    /\ written = [p \in Procs |-> {}]

\* several invocations share the cache directory
Init ==
    /\ upstream \in ShortUpstreams
    /\ quota = MaxRuns
    /\ network = SteadyOutcomes
    /\ InitCommon

\* one invocation on a fresh cache directory
InitRun ==
    /\ upstream \in RichUpstreams
    /\ quota = 1
    /\ network = SteadyOutcomes
    /\ InitCommon

\* one invocation on a fresh cache directory and a network whose requests
\* fail in every way
InitNet ==
    /\ upstream \in ShortUpstreams
    /\ quota = 1
    /\ network = Outcomes
    /\ InitCommon

\* the process ends: its memory is gone, the files stay
Exit(p, how) ==
    /\ pc' = [pc EXCEPT ![p] = "Done"]
    /\ outcome' = [outcome EXCEPT ![p] = how]
    /\ SEEN_URLS' = [SEEN_URLS EXCEPT ![p] = {}]
    /\ batches' = [batches EXCEPT ![p] = <<>>]
    /\ jobs' = [jobs EXCEPT ![p] = <<>>]
    /\ ranked' = [ranked EXCEPT ![p] = <<>>]
    /\ chosen' = [chosen EXCEPT ![p] = <<>>]
    /\ results' = [results EXCEPT ![p] = <<>>]
    /\ call' = [call EXCEPT ![p] = NoCall]
    /\ replies' = [replies EXCEPT ![p] = <<>>]
    /\ embeds' = [embeds EXCEPT ![p] = <<>>]
    /\ invoked' = [invoked EXCEPT ![p] = {}]
    /\ accepted' = [accepted EXCEPT ![p] = {}]
    /\ storeAtLoad' = [storeAtLoad EXCEPT ![p] = {}]
    /\ preRun' = [preRun EXCEPT ![p] = NoFile]
    /\ overlapped' = [overlapped EXCEPT ![p] = FALSE]
    /\ written' = [written EXCEPT ![p] = {}]

\* The interpreter starts and executes the module body: SEEN_URLS = _load_seen()
Start(p) ==
    /\ UNCHANGED world
    /\ pc[p] = "idle"
    /\ runs < quota
    /\ p = runs + 1
    /\ runs' = runs + 1
    /\ lock_fd' = [lock_fd EXCEPT ![p] = FALSE]
    /\ IF seenFile.exists /\ ~WellFormed(seenFile)
       THEN /\ raised' = [raised EXCEPT ![p] = "load"]
            /\ Exit(p, "exception")
       ELSE /\ raised' = [raised EXCEPT ![p] = "none"]
            /\ pc' = [pc EXCEPT ![p] = "Locking"]
            /\ outcome' = [outcome EXCEPT ![p] = "none"]
            /\ SEEN_URLS' = [SEEN_URLS EXCEPT ![p] = _load_seen(seenFile)]
            /\ storeAtLoad' = [storeAtLoad EXCEPT ![p] = json_loads(seenFile)]
            /\ overlapped' = [q \in Procs |->
                                IF q = p THEN \E r \in Procs \ {p} : Active(r)
                                ELSE overlapped[q] \/ Active(q)]
            /\ UNCHANGED <<locals, preRun, written, invoked, accepted>>
    /\ UNCHANGED <<lockFile, files>>

\* variant: the marker is opened without O_EXCL
CanCreateAlways == TRUE

\* os.open(LOCK_FILE, O_CREAT | O_EXCL | O_WRONLY) succeeds
CanCreate == ~lockFile

\* main: take the lock or leave
Lock(p) ==
    /\ UNCHANGED world
    /\ pc[p] = "Locking"
    /\ IF CanCreate
       THEN /\ lockFile' = TRUE
            /\ lock_fd' = [lock_fd EXCEPT ![p] = TRUE]
            /\ preRun' = [preRun EXCEPT ![p] = seenFile]
            /\ pc' = [pc EXCEPT ![p] = "Gathering"]
            /\ UNCHANGED <<outcome, SEEN_URLS, locals, storeAtLoad, overlapped,
                           written, invoked, accepted>>
       ELSE /\ Exit(p, "locked")
            /\ UNCHANGED <<lockFile, lock_fd>>
    /\ UNCHANGED <<files, runs, raised>>

\* the decorated function the stage of the process has still to call:
\* _get_html once per connector, _openai_post once for the scoring of a list
\* that is not empty and once per chosen job; "none" when all calls are made
Pending(p) ==
    IF pc[p] = "Gathering" /\ Len(replies[p]) < NumConnectors
    THEN "_get_html"
    ELSE IF pc[p] = "Ranking" /\ jobs[p] # <<>> /\ Len(replies[p]) < 1
    THEN "_openai_post"
    ELSE IF pc[p] = "Generating" /\ Len(replies[p]) < Len(chosen[p])
    THEN "_openai_post"
    ELSE "none"

\* what a scoring response can hold for the jobs of the process: one value
\* per job, or no `data` at all
Embeddings(p) == [1..Len(jobs[p]) -> Scores] \cup {<<>>}

\* One attempt of the request of _get_html or _openai_post under its @retry
\* decorator: the response is returned, or the exception is raised to the
\* caller, or another attempt follows.  (The calls of one stage are awaited
\* together by asyncio.gather; they share no state, and are taken in task
\* order here.)
Attempt(p) ==
    /\ UNCHANGED world
    /\ Pending(p) # "none"
    /\ LET fn == Pending(p)
           n == IF call[p].done THEN 1 ELSE call[p].tries + 1
       IN \E o \in network :
            LET done == \/ o = "ok"
                        \/ ~retry_if_exception_type(fn, o)
                        \/ stop_after_attempt(fn, n)
            IN /\ call' = [call EXCEPT ![p] =
                              [fn |-> fn, tries |-> n, outcome |-> o, done |-> done]]
               /\ replies' = [replies EXCEPT ![p] =
                                 IF done THEN Append(@, o = "ok") ELSE @]
               /\ \E e \in (IF pc[p] = "Ranking" /\ o = "ok"
                            THEN Embeddings(p) ELSE {<<>>}) :
                     embeds' = [embeds EXCEPT ![p] = e]
    /\ invoked' = [invoked EXCEPT ![p] =
                      @ \cup (IF pc[p] = "Ranking" THEN {"scoring"}
                              ELSE IF pc[p] = "Generating" THEN {"generation"}
                              ELSE {})]
    /\ UNCHANGED <<lockFile, files, runs, pc, outcome, lock_fd, raised, SEEN_URLS,
                   batches, jobs, ranked, chosen, results, storeAtLoad, preRun,
                   overlapped, written, accepted>>

\* main: jobs = await _gather(client); if not jobs: return
\* (a connector whose page was fetched may still raise while parsing it)
Gather(p) ==
    /\ UNCHANGED world
    /\ pc[p] = "Gathering"
    /\ Pending(p) = "none"
    /\ \E ok \in [Connectors -> BOOLEAN] :
          LET res == [c \in Connectors |->
                        IF ok[c] THEN Returned(Rows(c, upstream[c])) ELSE Failed]
          IN /\ \A c \in Connectors : ok[c] => replies[p][c]
             /\ batches' = [batches EXCEPT ![p] = res]
             /\ jobs' = [jobs EXCEPT ![p] = _gather(res, SEEN_URLS[p])]
    /\ pc' = [pc EXCEPT ![p] = AfterGather(jobs'[p])]
    /\ call' = [call EXCEPT ![p] = NoCall]
    /\ replies' = [replies EXCEPT ![p] = <<>>]
    /\ UNCHANGED <<lockFile, files, runs, outcome, lock_fd, raised, SEEN_URLS,
                   ranked, chosen, results, embeds, history>>

\* main: ranked = await _rank_jobs(client, jobs); chosen = ranked[:MAX_APPLY]
\* _rank_jobs returns [] for an empty list without calling _embed; _embed
\* raises when the call raised or the response holds no vectors, and sorted
\* raises when it has to compare two jobs
Rank(p) ==
    /\ UNCHANGED world
    /\ pc[p] = "Ranking"
    /\ Pending(p) = "none"
    /\ IF jobs[p] = <<>>
       THEN /\ ranked' = [ranked EXCEPT ![p] = <<>>]
            /\ chosen' = [chosen EXCEPT ![p] = <<>>]
            /\ pc' = [pc EXCEPT ![p] = "Generating"]
            /\ UNCHANGED raised
       ELSE IF replies[p][1] /\ embeds[p] # <<>> /\ ~SortRaises(embeds[p], jobs[p])
       THEN /\ ranked' = [ranked EXCEPT ![p] = _rank_jobs(embeds[p], jobs[p])]
            /\ chosen' = [chosen EXCEPT ![p] = Select(ranked'[p])]
            /\ pc' = [pc EXCEPT ![p] = "Generating"]
            /\ UNCHANGED raised
       ELSE /\ raised' = [raised EXCEPT ![p] = "rank"]
            /\ pc' = [pc EXCEPT ![p] = "Unwinding"]
            /\ UNCHANGED <<ranked, chosen>>
    /\ call' = [call EXCEPT ![p] = NoCall]
    /\ replies' = [replies EXCEPT ![p] = <<>>]
    /\ embeds' = [embeds EXCEPT ![p] = <<>>]
    /\ UNCHANGED <<lockFile, files, runs, outcome, lock_fd, SEEN_URLS, batches,
                   jobs, results, history>>

\* main: results = await asyncio.gather(*[_mega_generate(...) for job in chosen])
\* (batches, jobs and ranked are not read after this point)
Generate(p) ==
    /\ UNCHANGED world
    /\ pc[p] = "Generating"
    /\ Pending(p) = "none"
    /\ \E raw \in [1..Len(chosen[p]) -> RawResponses] :
          /\ \A i \in 1..Len(chosen[p]) :
                (raw[i] = "transport_error") = ~replies[p][i]
          /\ results' = [results EXCEPT ![p] =
                            [i \in 1..Len(chosen[p]) |-> _mega_generate(raw[i])]]
    /\ pc' = [pc EXCEPT ![p] = "Persisting"]
    /\ batches' = [batches EXCEPT ![p] = <<>>]
    /\ jobs' = [jobs EXCEPT ![p] = <<>>]
    /\ ranked' = [ranked EXCEPT ![p] = <<>>]
    /\ call' = [call EXCEPT ![p] = NoCall]
    /\ replies' = [replies EXCEPT ![p] = <<>>]
    /\ UNCHANGED <<lockFile, files, runs, outcome, lock_fd, raised, SEEN_URLS,
                   chosen, embeds, history>>

\* main: for job, res in zip(chosen, results): ...
\* (chosen and results are not read after the loop)
Persist(p) ==
    /\ UNCHANGED world
    /\ pc[p] = "Persisting"
    /\ LET st == PersistLoop(chosen[p], results[p], 1,
                     [arts |-> artifacts, foll |-> followups,
                      seen |-> SEEN_URLS[p], names |-> {}, raised |-> FALSE])
       IN /\ artifacts' = st.arts
          /\ followups' = st.foll
          /\ SEEN_URLS' = [SEEN_URLS EXCEPT ![p] = st.seen]
          /\ written' = [written EXCEPT ![p] = st.names]
          /\ raised' = [raised EXCEPT ![p] = IF st.raised THEN "persist" ELSE @]
          /\ pc' = [pc EXCEPT ![p] = AfterLoop(st.raised)]
    /\ accepted' = [accepted EXCEPT ![p] =
                       {chosen[p][i].url :
                           i \in {k \in 1..Len(chosen[p]) : results[p][k] = "success"}}]
    /\ chosen' = [chosen EXCEPT ![p] = <<>>]
    /\ results' = [results EXCEPT ![p] = <<>>]
    /\ UNCHANGED <<lockFile, seenFile, tmpFile, runs, outcome, lock_fd, batches,
                   jobs, ranked, call, replies, embeds, storeAtLoad, preRun,
                   overlapped, invoked>>

\* variant: the new content is written over SEEN_FILE itself
SaveTargetDirect == "seen"

\* the path _save_seen writes the new content to
SaveTarget == "tmp"

\* _save_seen: tmp.write_text opens the file, which truncates it
SaveOpen(p) ==
    /\ UNCHANGED world
    /\ pc[p] = "SaveOpen"
    /\ IF SaveTarget = "tmp"
       THEN tmpFile' = EmptyFile /\ UNCHANGED seenFile
       ELSE seenFile' = EmptyFile /\ UNCHANGED tmpFile
    /\ written' = [written EXCEPT ![p] = {}]
    /\ pc' = [pc EXCEPT ![p] = "SaveWrite"]
    /\ UNCHANGED <<lockFile, artifacts, followups, runs, outcome, lock_fd, raised,
                   SEEN_URLS, locals, storeAtLoad, preRun, overlapped, invoked,
                   accepted>>

\* _save_seen: the text reaches the file piece by piece
SaveWrite(p) ==
    /\ UNCHANGED world
    /\ pc[p] = "SaveWrite"
    /\ LET full == json_dumps(SEEN_URLS[p])
           cur == IF SaveTarget = "tmp" THEN tmpFile ELSE seenFile
           nxt == NextPiece(cur, full)
       IN /\ IF SaveTarget = "tmp"
             THEN tmpFile' = nxt /\ UNCHANGED seenFile
             ELSE seenFile' = nxt /\ UNCHANGED tmpFile
          /\ pc' = [pc EXCEPT ![p] = IF nxt = full THEN "SaveReplace" ELSE "SaveWrite"]
    /\ UNCHANGED <<lockFile, artifacts, followups, runs, outcome, lock_fd, raised,
                   SEEN_URLS, locals, history>>

\* _save_seen: tmp.replace(SEEN_FILE), an atomic rename
SaveReplace(p) ==
    /\ UNCHANGED world
    /\ pc[p] = "SaveReplace"
    /\ IF SaveTarget = "tmp"
       THEN seenFile' = tmpFile /\ tmpFile' = NoFile
       ELSE UNCHANGED <<seenFile, tmpFile>>
    /\ pc' = [pc EXCEPT ![p] = "Unlocking"]
    /\ UNCHANGED <<lockFile, artifacts, followups, runs, outcome, lock_fd, raised,
                   SEEN_URLS, locals, history>>

\* main: the client is closed; os.close(lock_fd); os.remove(LOCK_FILE)
Unlock(p) ==
    /\ UNCHANGED world
    /\ pc[p] = "Unlocking"
    /\ lockFile' = FALSE
    /\ lock_fd' = [lock_fd EXCEPT ![p] = FALSE]
    /\ Exit(p, "completed")
    /\ UNCHANGED <<files, runs, raised>>

\* main is left from inside the `async with` block, by `return` or by an
\* exception no handler catches: the client is closed and the process ends
Unwind(p) ==
    /\ UNCHANGED world
    /\ pc[p] = "Unwinding"
    /\ Exit(p, IF raised[p] = "none" THEN "no_new" ELSE "exception")
    /\ UNCHANGED <<lockFile, files, runs, lock_fd, raised>>

\* the process is killed from outside at any point
Kill(p) ==
    /\ UNCHANGED world
    /\ Active(p)
    /\ Exit(p, "killed")
    /\ UNCHANGED <<lockFile, files, runs, lock_fd, raised>>

Next ==
    \E p \in Procs :
        \/ Start(p)
        \/ Lock(p)
        \/ Attempt(p)
        \/ Gather(p)
        \/ Rank(p)
        \/ Generate(p)
        \/ Persist(p)
        \/ SaveOpen(p)
        \/ SaveWrite(p)
        \/ SaveReplace(p)
        \/ Unlock(p)
        \/ Unwind(p)
        \/ Kill(p)

Spec == Init /\ [][Next]_vars

SpecRun == InitRun /\ [][Next]_vars

SpecNet == InitNet /\ [][Next]_vars


\* ================================================================== claims
UrlsIn(s) == {s[i].url : i \in 1..Len(s)}

\* the invocation ended by itself (a return or an uncaught exception)
ExitedByItself(p) == pc[p] = "Done" /\ outcome[p] \in {"locked", "no_new", "exception", "completed"}

\* C1: every invocation that created the lock marker has removed it when it
\* ends by itself, whichever way it leaves main.
C1_LockReleasedOnEveryExit ==
    \A p \in Procs : ExitedByItself(p) => ~lock_fd[p]

\* C2: at no time are two invocations past the creation of the marker; an
\* invocation that tries to create the marker while there is none gets it; an
\* invocation that tries to create the marker while another one is between
\* Gathering and Unlocking ends at once and writes nothing; and every step
\* that changes the store file, its temporary file, a letter or the journal
\* is taken while an invocation holds the marker, and by no other one.
C2_OneRunAtATime ==
    /\ [](\A p, q \in Procs : p # q => ~(InRun(p) /\ InRun(q)))
    /\ [][\A p \in Procs :
            (pc[p] = "Locking" /\ pc'[p] # "Locking" /\ ~lockFile
                /\ outcome'[p] # "killed")
            => (pc'[p] = "Gathering" /\ lockFile')]_vars
    /\ [][\A p \in Procs :
            (pc[p] = "Locking" /\ pc'[p] # "Locking"
                /\ \E q \in Procs \ {p} : InRun(q))
            => (pc'[p] = "Done" /\ outcome'[p] \in {"locked", "killed"}
                /\ files' = files)]_vars
    /\ [][files' # files
            => \E p \in Procs :
                  /\ InRun(p) /\ lock_fd[p]
                  /\ \A q \in Procs \ {p} : pc'[q] = pc[q]]_vars

C2_Witness ==
    \E p, q \in Procs :
        /\ pc[p] = "Done" /\ outcome[p] = "locked"
        /\ pc[q] = "Unlocking" /\ followups # <<>>

\* C3: an invocation that runs strictly after the other invocations (none
\* was active at any time since it started) selects no posting whose url is
\* in the store file.
C3_SequentialRerunSelectsNothingSeen ==
    \A p \in Procs :
        (pc[p] \in {"Generating", "Persisting"} /\ ~overlapped[p])
        => UrlsIn(chosen[p]) \cap json_loads(seenFile) = {}

C3_Witness ==
    \E p \in Procs :
        /\ pc[p] = "Generating" /\ ~overlapped[p]
        /\ json_loads(seenFile) # {}
        /\ \E q \in Procs \ {p} : outcome[q] = "completed"

\* C4: the jobs handed to the ranker, the ranked jobs and the chosen jobs
\* hold no url that was in the store file when the invocation loaded it.
C4_SeenAtLoadNeverRankedOrSelected ==
    \A p \in Procs :
        (UrlsIn(jobs[p]) \cup UrlsIn(ranked[p]) \cup UrlsIn(chosen[p]))
            \cap storeAtLoad[p] = {}

C4_Witness ==
    \E p \in Procs :
        /\ pc[p] = "Ranking"
        /\ \E c \in Connectors :
              /\ batches[p][c].ok
              /\ UrlsIn(batches[p][c].batch) \cap storeAtLoad[p] # {}

\* C5: after filtering, no two jobs of the working list have the same url.
C5_NoDuplicateUrlAfterFiltering ==
    \A p \in Procs :
        pc[p] = "Ranking"
        => \A i, k \in 1..Len(jobs[p]) : i # k => jobs[p][i].url # jobs[p][k].url

\* C6: an invocation whose ranking failed ends by a return, not by an
\* exception, and has removed the lock marker.
C6_RankFailureIsGraceful ==
    \A p \in Procs :
        (ExitedByItself(p) /\ raised[p] = "rank")
        => (outcome[p] # "exception" /\ ~lock_fd[p])

\* the indices of the selected postings whose response is a success record
Accepted(p) == {i \in 1..Len(chosen[p]) : results[p][i] = "success"}

\* C7: the loop over the selected postings writes a letter file for exactly
\* the accepted ones, one file each, adds exactly their urls to the working
\* set, and a failed posting does not stop it.
C7_PersistedIffAccepted ==
    [][\A p \in Procs :
          (pc[p] = "Persisting" /\ pc'[p] \in {"SaveOpen", "Unwinding"})
          => /\ pc'[p] = "SaveOpen"
             /\ written'[p] = {FileName(chosen[p][i]) : i \in Accepted(p)}
             /\ Cardinality(written'[p]) = Cardinality(Accepted(p))
             /\ SEEN_URLS'[p] = SEEN_URLS[p] \cup {chosen[p][i].url : i \in Accepted(p)}]_vars

\* C8: whichever connectors fail, the merged jobs are those of the pages of
\* the connectors that did not fail (less the urls already seen), and the
\* invocation goes on to ranking unless there is none.
C8_MergedIsUnionOfSucceeded ==
    \A p \in Procs :
        (pc[p] \in {"Ranking", "Unwinding"} /\ raised[p] = "none")
        => /\ Range(jobs[p]) =
                {j \in UNION {Range(Rows(c, upstream[c])) :
                                 c \in {d \in Connectors : batches[p][d].ok}} :
                    j.url \notin SEEN_URLS[p]}
           /\ (pc[p] = "Ranking") = (jobs[p] # <<>>)

C8_Witness ==
    \E p \in Procs :
        /\ pc[p] = "Ranking"
        /\ \E c, d \in Connectors :
              /\ c < d
              /\ ~batches[p][c].ok /\ upstream[c] > 0
              /\ batches[p][d].ok /\ upstream[d] > 0

\* C9: the store file is at all times absent or a complete JSON array, and
\* whenever it changes it goes in one step from what it held when the
\* invocation took the lock to the complete new content.
C9_StoreNeverTorn ==
    /\ [](seenFile.exists => WellFormed(seenFile))
    /\ [][seenFile' # seenFile
            => \E p \in Procs :
                  /\ pc[p] = "SaveReplace"
                  /\ seenFile = preRun[p]
                  /\ seenFile' = json_dumps(SEEN_URLS[p])]_vars

C9_Witness ==
    \E p \in Procs :
        /\ pc[p] = "Done" /\ outcome[p] = "killed" /\ lock_fd[p]
        /\ tmpFile.exists /\ ~WellFormed(tmpFile) /\ tmpFile.items # <<>>
        /\ WellFormed(seenFile) /\ json_loads(seenFile) # {}

\* C10: of n ranked jobs the first min(n, MAX_APPLY) are chosen, in ranked
\* order, and one generation result comes back for each of them.
C10_TopK ==
    \A p \in Procs :
        /\ pc[p] = "Generating"
           => /\ Len(ranked[p]) = Len(jobs[p])
              /\ Len(chosen[p]) = Min(Len(jobs[p]), MAX_APPLY)
              /\ \A i \in 1..Len(chosen[p]) : chosen[p][i] = ranked[p][i]
        /\ pc[p] = "Persisting"
           => /\ Len(results[p]) = Len(chosen[p])
              /\ Len(chosen[p]) <= MAX_APPLY

C10_Witness ==
    \E p \in Procs : pc[p] = "Generating" /\ Len(jobs[p]) > MAX_APPLY

\* the place job i of the input takes in a descending order by score in
\* which jobs of equal score keep their input order
StablePlace(sc, i) ==
    1 + Cardinality({k \in DOMAIN sc : sc[k] > sc[i]})
      + Cardinality({k \in DOMAIN sc : k < i /\ sc[k] = sc[i]})

\* C11: whenever the scoring service has returned a value for every job,
\* the ranking succeeds, and it lists the jobs in descending order of score
\* with jobs of equal score in their input order.
C11_RankDescendingAndStable ==
    [][\A p \in Procs :
          (pc[p] = "Ranking" /\ embeds[p] # <<>>
              /\ pc'[p] # "Ranking" /\ outcome'[p] # "killed")
          => /\ pc'[p] = "Generating"
             /\ Len(ranked'[p]) = Len(jobs[p])
             /\ \A i \in 1..Len(jobs[p]) :
                   ranked'[p][StablePlace(embeds[p], i)] = jobs[p][i]]_vars

\* C12: when no job is left after filtering, the invocation goes straight to
\* its end: it has called neither the scoring nor the generation service, it
\* calls neither afterwards, and it ends with the report "No new jobs."
C12_EmptyShortCircuit ==
    /\ [][\A p \in Procs :
            (pc[p] = "Gathering" /\ pc'[p] \notin {"Gathering", "Done"}
                /\ jobs'[p] = <<>>)
            => (pc'[p] = "Unwinding" /\ raised'[p] = "none")]_vars
    /\ [](\A p \in Procs :
            (pc[p] = "Unwinding" /\ raised[p] = "none")
            => (jobs[p] = <<>> /\ invoked[p] = {} /\ Pending(p) = "none"))
    /\ [][\A p \in Procs :
            (pc[p] = "Unwinding" /\ raised[p] = "none" /\ pc'[p] # pc[p])
            => (pc'[p] = "Done" /\ outcome'[p] \in {"no_new", "killed"})]_vars

C12_Witness ==
    \E p \in Procs :
        /\ pc[p] = "Done" /\ outcome[p] = "no_new"
        /\ json_loads(seenFile) # {}

\* whether the last call of the process was raised to its caller
FailedToCaller(p) ==
    /\ call[p].done
    /\ replies[p] # <<>>
    /\ ~replies[p][Len(replies[p])]

\* C13: an attempt that ends in a 4xx status other than 429, or in a
\* malformed url, is the last attempt of its call, which fails to its caller:
\* when it is the first attempt, the call has made exactly one.
C13_NonRetryableFailsAtOnce ==
    \A p \in Procs :
        call[p].outcome \in {"http_4xx", "invalid_url"} => FailedToCaller(p)

\* C14: a call of _get_html makes at most 3 attempts and a call of
\* _openai_post at most 4, and a call whose last allowed attempt failed has
\* failed to its caller.
C14_AttemptsBounded ==
    \A p \in Procs :
        /\ call[p].fn = "_get_html" => call[p].tries <= 3
        /\ call[p].fn = "_openai_post" => call[p].tries <= 4
        /\ (call[p].outcome \notin {"none", "ok"}
               /\ call[p].tries = (IF call[p].fn = "_get_html" THEN 3 ELSE 4))
           => FailedToCaller(p)

C14_Witness ==
    \E p \in Procs :
        /\ call[p].fn = "_openai_post" /\ call[p].tries = 4
        /\ call[p].outcome = "http_5xx" /\ FailedToCaller(p)

\* C15: the loop over the selected postings does not crash, and it writes a
\* letter file and records a url for none but the postings whose response is
\* a success record.
C15_OnlySuccessRecordAccepted ==
    [][\A p \in Procs :
          (pc[p] = "Persisting" /\ pc'[p] \in {"SaveOpen", "Unwinding"})
          => /\ pc'[p] = "SaveOpen"
             /\ written'[p] \subseteq {FileName(chosen[p][i]) : i \in Accepted(p)}
             /\ (SEEN_URLS'[p] \ SEEN_URLS[p])
                   \subseteq {chosen[p][i].url : i \in Accepted(p)}]_vars

\* C16: an invocation reads the store file (the load at its start included)
\* only while it holds the lock marker, and the file changes only while an
\* invocation holds the marker.
C16_StoreTouchedOnlyUnderLock ==
    /\ [][\A p \in Procs :
            (pc[p] = "idle" /\ pc'[p] # "idle") => (lockFile /\ lock_fd[p])]_vars
    /\ [][seenFile' # seenFile
            => \E p \in Procs : InRun(p) /\ lock_fd[p]]_vars

\* C17: after an attempt that ends in a connection error or a 5xx status,
\* and is not the last one allowed (3 for _get_html, 4 for _openai_post),
\* the call goes on to another attempt.
C17_TransientIsRetried ==
    \A p \in Procs :
        (call[p].outcome \in {"connect_error", "http_5xx"}
            /\ call[p].tries < (IF call[p].fn = "_get_html" THEN 3 ELSE 4))
        => ~call[p].done

\* C18: at the step that removes the lock marker the store file is complete
\* and holds the working set of the invocation, the urls of its accepted
\* postings among them.
C18_PersistBeforeUnlock ==
    [][\A p \in Procs :
          (lockFile /\ lock_fd[p] /\ ~lockFile')
          => /\ WellFormed(seenFile)
             /\ seenFile = json_dumps(SEEN_URLS[p])
             /\ accepted[p] \subseteq json_loads(seenFile)]_vars

C18_Witness ==
    \E p \in Procs :
        /\ pc[p] = "Done" /\ outcome[p] = "completed"
        /\ ~lockFile /\ ~lock_fd[p]
        /\ followups # <<>> /\ json_loads(seenFile) # {}

\* C19: in a run whose responses are all success or error records and whose
\* selected postings all have different urls, the loop writes as many letter
\* files as there are accepted postings, and afterwards the file of every
\* accepted posting holds the letter of that posting.
C19_OneFilePerAccepted ==
    [][\A p \in Procs :
          (/\ pc[p] = "Persisting" /\ pc'[p] \in {"SaveOpen", "Unwinding"}
           /\ \A i \in 1..Len(chosen[p]) : results[p][i] \in {"success", "error_record"}
           /\ \A i, k \in 1..Len(chosen[p]) :
                 i # k => chosen[p][i].url # chosen[p][k].url)
          => /\ Cardinality(written'[p]) = Cardinality(Accepted(p))
             /\ \A i \in Accepted(p) :
                   [name |-> FileName(chosen[p][i]), letter |-> chosen[p][i].url]
                       \in artifacts']_vars

\* C20: whenever the store file changes, every url it held is still in it,
\* and its new content is what it held when the invocation took the lock
\* together with the urls of the accepted postings of that invocation.
C20_StoreGrowsMonotonically ==
    [][seenFile' # seenFile
          => /\ json_loads(seenFile) \subseteq json_loads(seenFile')
             /\ \E p \in Procs :
                   /\ pc[p] = "SaveReplace"
                   /\ json_loads(seenFile')
                         = json_loads(preRun[p]) \cup accepted[p]]_vars
====
